---- MODULE Spec2Model ----
(***************************************************************************)
(* Model of homework.py: the fitness-tracker module that turns a tagged    *)
(* sensor packet into a training summary line.                             *)
(*                                                                         *)
(* Numbers.  A Python int is a TLA+ integer.  A Python float is an         *)
(* IEEE-754 double, modelled bit for bit: a record [t, s, m, e] of value   *)
(* (-1)^s * m * 2^e whose significand m has 53 bits (or is 0, s then       *)
(* telling 0.0 from -0.0).  Every arithmetic operation rounds its exact    *)
(* result to the nearest double, a tie to the even significand, as the     *)
(* hardware does; format(x, '.3f') rounds the exact binary value.  A       *)
(* significand exceeds TLC's 32-bit integers, so it is held as a sequence  *)
(* of base-2^15 digits.  Exponents are unbounded: overflow to infinity     *)
(* and subnormal numbers are out of reach of the inputs.                   *)
(*                                                                         *)
(* x ** 2 is pow(x, 2.0) of the C library, which does not promise the      *)
(* nearest double: it returns the square when that is a double, and else   *)
(* one of the two doubles around it, always the same one for the same x.   *)
(* Which one is the build's; pow_up holds the arguments on which it is the *)
(* upper one, is chosen with the initial state and never changes.          *)
(*                                                                         *)
(* Exceptions.  A call returns an outcome: Ok(value) or Raise(exception).  *)
(* Strings.  The Cyrillic literals of get_message cannot be written in a   *)
(* TLA+ string; their English equivalents are used, segment for segment.   *)
(***************************************************************************)
EXTENDS Integers, Sequences, FiniteSets, TLC

VARIABLES packages, idx, pc, training, info, out, err, op, results, pow_up,
          other, log

vars == <<packages, idx, pc, training, info, out, err, op, results, pow_up,
          other, log>>

(***************************************************************************)
(* Natural numbers of any size                                             *)
(***************************************************************************)
Abs(x) == IF x < 0 THEN -x ELSE x

\* A number is the sequence of its base-2^15 digits, the least significant
\* first, without leading zero digits (0 is <<>>).
LimbBits == 15
Base == 32768

Limb(a, i) == IF i <= Len(a) THEN a[i] ELSE 0

RECURSIVE BTrim(_)
BTrim(a) ==
    IF a = <<>> THEN a
    ELSE IF a[Len(a)] = 0 THEN BTrim(SubSeq(a, 1, Len(a) - 1))
    ELSE a

RECURSIVE BFromInt(_)
BFromInt(n) == IF n = 0 THEN <<>> ELSE <<n % Base>> \o BFromInt(n \div Base)

RECURSIVE BCmpFrom(_, _, _)
BCmpFrom(a, b, i) ==
    IF i = 0 THEN 0
    ELSE IF a[i] < b[i] THEN -1
    ELSE IF a[i] > b[i] THEN 1
    ELSE BCmpFrom(a, b, i - 1)

BCmp(a, b) ==
    IF Len(a) < Len(b) THEN -1
    ELSE IF Len(a) > Len(b) THEN 1
    ELSE BCmpFrom(a, b, Len(a))

RECURSIVE BAddC(_, _, _, _)
BAddC(a, b, i, c) ==
    IF i > Len(a) /\ i > Len(b) THEN (IF c = 0 THEN <<>> ELSE <<c>>)
    ELSE LET s == Limb(a, i) + Limb(b, i) + c
         IN  <<s % Base>> \o BAddC(a, b, i + 1, s \div Base)

BAdd(a, b) == BAddC(a, b, 1, 0)

\* a - b for a >= b
RECURSIVE BSubC(_, _, _, _)
BSubC(a, b, i, c) ==
    IF i > Len(a) THEN <<>>
    ELSE LET s == a[i] - Limb(b, i) - c
         IN  IF s < 0 THEN <<s + Base>> \o BSubC(a, b, i + 1, 1)
             ELSE <<s>> \o BSubC(a, b, i + 1, 0)

BSub(a, b) == BTrim(BSubC(a, b, 1, 0))

\* a * k for 0 <= k < 2^15
RECURSIVE BMulSmallC(_, _, _, _)
BMulSmallC(a, k, i, c) ==
    IF i > Len(a) THEN (IF c = 0 THEN <<>> ELSE <<c>>)
    ELSE LET s == a[i] * k + c
         IN  <<s % Base>> \o BMulSmallC(a, k, i + 1, s \div Base)

BMulSmall(a, k) == IF k = 0 THEN <<>> ELSE BMulSmallC(a, k, 1, 0)

RECURSIVE Zeros(_)
Zeros(q) == IF q = 0 THEN <<>> ELSE <<0>> \o Zeros(q - 1)

BShlLimbs(a, q) == IF a = <<>> THEN a ELSE Zeros(q) \o a

RECURSIVE BMulFrom(_, _, _)
BMulFrom(a, b, i) ==
    IF i > Len(b) THEN <<>>
    ELSE BAdd(BMulSmall(a, b[i]), BShlLimbs(BMulFrom(a, b, i + 1), 1))

BMul(a, b) == BMulFrom(a, b, 1)

\* quotient and remainder of a by k, for 0 < k <= 2^15: one digit a step,
\* from the most significant one; st is what is done so far
BDivSmallStep(a, k, st) ==
    LET cur == st.r * Base + a[st.i]
    IN  [i |-> st.i - 1, q |-> <<cur \div k>> \o st.q, r |-> cur % k]

RECURSIVE BDivSmallFrom(_, _, _)
BDivSmallFrom(a, k, st) ==
    IF st.i = 0 THEN st ELSE BDivSmallFrom(a, k, BDivSmallStep(a, k, st))

BDivModSmall(a, k) == BDivSmallFrom(a, k, [i |-> Len(a), q |-> <<>>, r |-> 0])

BDivSmall(a, k) == BTrim(BDivModSmall(a, k).q)

BModSmall(a, k) == BDivModSmall(a, k).r

BShl(a, n) ==
    BShlLimbs(BMulSmall(a, 2 ^ (n % LimbBits)), n \div LimbBits)

BShr(a, n) ==
    LET q == n \div LimbBits
    IN  IF q >= Len(a) THEN <<>>
        ELSE BDivSmall(SubSeq(a, q + 1, Len(a)), 2 ^ (n % LimbBits))

\* a mod 2^n
BLow(a, n) ==
    LET q == n \div LimbBits
    IN  IF q >= Len(a) THEN a
        ELSE BTrim(SubSeq(a, 1, q) \o <<a[q + 1] % (2 ^ (n % LimbBits))>>)

BitLenSmall(x) == CHOOSE k \in 0..LimbBits : x < 2 ^ k /\ (k = 0 \/ 2 ^ (k - 1) <= x)

BBitLen(a) ==
    IF a = <<>> THEN 0
    ELSE LimbBits * (Len(a) - 1) + BitLenSmall(a[Len(a)])

BIsOdd(a) == a # <<>> /\ a[1] % 2 = 1

\* The long division of n by d, for d with its top digit at least 2^14.  A
\* digit of the quotient is estimated from the two top digits of the running
\* remainder cur; the estimate is at most 2 too large.
BDigitEstimate(d, cur) ==
    (Limb(cur, Len(d) + 1) * Base + Limb(cur, Len(d))) \div d[Len(d)]

BDigitCapped(q) == IF q > Base - 1 THEN Base - 1 ELSE q

BDigitLowered(d, cur, q) ==
    IF BCmp(BMulSmall(d, q), cur) > 0 THEN q - 1 ELSE q

BDigit(d, cur) ==
    BDigitLowered(d, cur,
        BDigitLowered(d, cur, BDigitCapped(BDigitEstimate(d, cur))))

BDivTake(d, st, cur, q) ==
    [i |-> st.i - 1, q |-> <<q>> \o st.q, r |-> BSub(cur, BMulSmall(d, q))]

BDivDigit(d, st, cur) == BDivTake(d, st, cur, BDigit(d, cur))

BDivStep(n, d, st) == BDivDigit(d, st, BTrim(<<n[st.i]>> \o st.r))

RECURSIVE BDivFrom(_, _, _)
BDivFrom(n, d, st) ==
    IF st.i = 0 THEN st ELSE BDivFrom(n, d, BDivStep(n, d, st))

BDivResult(res) == [q |-> BTrim(res.q), exact |-> res.r = <<>>]

BDivNormal(n, d) ==
    BDivResult(BDivFrom(n, d, [i |-> Len(n), q |-> <<>>, r |-> <<>>]))

\* the shift that brings the top digit of d to 2^14 or more
BNormalShift(d) == LimbBits * Len(d) - BBitLen(d)

\* floor(n / d) and whether the division is exact, for d # 0
BDiv(n, d) == BDivNormal(BShl(n, BNormalShift(d)), BShl(d, BNormalShift(d)))

(***************************************************************************)
(* Floats                                                                  *)
(***************************************************************************)
\* the bits of a double's significand
MantBits == 53

Double(s, m, e) == [t |-> "float", s |-> s, m |-> m, e |-> e]

\* kept, or the next number up: c compares the part rounded away with half
\* a unit (sticky: a little more than that part was rounded away); a tie goes
\* to the even number
BRoundUp(kept, c, sticky) ==
    IF c > 0 \/ (c = 0 /\ (sticky \/ BIsOdd(kept)))
    THEN BAdd(kept, <<1>>) ELSE kept

\* n / 2^sh rounded to the nearest number, for sh > 0
BRoundShr(n, sh, sticky) ==
    BRoundUp(BShr(n, sh), BCmp(BLow(n, sh), BShl(<<1>>, sh - 1)), sticky)

\* the rounding may have carried into a 54th bit
Renormal(s, m, e) ==
    IF BBitLen(m) > MantBits THEN Double(s, BShr(m, 1), e + 1)
    ELSE Double(s, m, e)

RoundBy(s, n, e, sticky, sh) ==
    IF sh <= 0 THEN Double(s, BShl(n, -sh), e + sh)
    ELSE Renormal(s, BRoundShr(n, sh, sticky), e + sh)

\* (-1)^s * n * 2^e (plus a little, when sticky) rounded to the nearest
\* double, a tie to the even significand
RoundDouble(s, n, e, sticky) ==
    IF n = <<>> THEN Double(s, <<>>, 0)
    ELSE RoundBy(s, n, e, sticky, BBitLen(n) - MantBits)

\* int -> float
F(i) == RoundDouble(IF i < 0 THEN 1 ELSE 0, BFromInt(Abs(i)), 0, FALSE)

None == [t |-> "NoneType", s |-> 0, m |-> <<>>, e |-> 0]

IsZero(x) == x.m = <<>>

Mul(a, b) ==
    IF IsZero(a) \/ IsZero(b) THEN Double((a.s + b.s) % 2, <<>>, 0)
    ELSE RoundDouble((a.s + b.s) % 2, BMul(a.m, b.m), a.e + b.e, FALSE)

RoundQuotient(s, d, e) == RoundDouble(s, d.q, e, ~d.exact)

\* a / b for b # 0 (the callers raise ZeroDivisionError before dividing by 0)
Div(a, b) ==
    IF IsZero(a) THEN Double((a.s + b.s) % 2, <<>>, 0)
    ELSE RoundQuotient((a.s + b.s) % 2,
                       BDiv(BShl(a.m, 4 * LimbBits), b.m),
                       a.e - b.e - 4 * LimbBits)

\* the exponents further apart than this, the smaller operand only decides
\* the rounding
FarApart == 64

AddFar(big, small) ==
    RoundDouble(big.s,
                IF big.s = small.s THEN BShl(big.m, 2)
                ELSE BSub(BShl(big.m, 2), <<1>>),
                big.e - 2, TRUE)

\* x and y, the significands at the exponent of small; c compares them
AddSigned(big, small, x, y, c) ==
    IF big.s = small.s THEN RoundDouble(big.s, BAdd(x, y), small.e, FALSE)
    ELSE IF c = 0 THEN Double(0, <<>>, 0)
    ELSE IF c > 0 THEN RoundDouble(big.s, BSub(x, y), small.e, FALSE)
    ELSE RoundDouble(small.s, BSub(y, x), small.e, FALSE)

AddAligned(big, small, x) == AddSigned(big, small, x, small.m, BCmp(x, small.m))

\* big has the larger exponent
AddOrdered(big, small) ==
    IF big.e - small.e > FarApart THEN AddFar(big, small)
    ELSE AddAligned(big, small, BShl(big.m, big.e - small.e))

Add(a, b) ==
    IF IsZero(a) /\ IsZero(b)
    THEN Double(IF a.s = 1 /\ b.s = 1 THEN 1 ELSE 0, <<>>, 0)
    ELSE IF IsZero(a) THEN b
    ELSE IF IsZero(b) THEN a
    ELSE IF a.e >= b.e THEN AddOrdered(a, b)
    ELSE AddOrdered(b, a)

\* the float literal written n/d in decimal (0.65 is Dec(65, 100))
Dec(n, d) == Div(F(n), F(d))

\* the leading bits of n, sh bits dropped: the number below n / 2^sh, or
\* the one above it (up); n / 2^sh itself when no bit dropped is set
BCut(n, sh, up) ==
    IF up /\ BLow(n, sh) # <<>> THEN BAdd(BShr(n, sh), <<1>>)
    ELSE BShr(n, sh)

CutBy(n, e, up, sh) ==
    IF sh <= 0 THEN Double(0, BShl(n, -sh), e + sh)
    ELSE Renormal(0, BCut(n, sh, up), e + sh)

\* n * 2^e when it is a double, else the double next below it, or next
\* above it (up)
RoundToward(n, e, up) ==
    IF n = <<>> THEN Double(0, <<>>, 0)
    ELSE CutBy(n, e, up, BBitLen(n) - MantBits)

\* the two doubles around the exact square of x (the same double twice
\* when the square is one)
SquareDown(x) == RoundToward(BMul(x.m, x.m), 2 * x.e, FALSE)
SquareUp(x) == RoundToward(BMul(x.m, x.m), 2 * x.e, TRUE)

\* the values pow(x, 2.0) may take
Pow2(x) == {SquareDown(x), SquareUp(x)}

\* x ** 2: the value this build's pow(x, 2.0) takes
Square(x) == IF x \in pow_up THEN SquareUp(x) ELSE SquareDown(x)

(***************************************************************************)
(* Exceptions and outcomes of calls                                        *)
(***************************************************************************)
NoError == [type |-> "", msg |-> ""]
Exc(type, msg) == [type |-> type, msg |-> msg]
ZeroDivisionError == Exc("ZeroDivisionError", "")
TypeError == Exc("TypeError", "")

Ok(v) == [raised |-> NoError, value |-> v]
Raise(e) == [raised |-> e, value |-> None]

\* a call r followed by the rest of the expression: an exception r raised
\* leaves the expression, a value r returned goes into the rest
AndThen(r, Rest(_)) == IF r.raised # NoError THEN r ELSE Rest(r.value)
Str(s) == [t |-> "str", s |-> s]

(***************************************************************************)
(* Class constants                                                         *)
(***************************************************************************)
Training_LEN_STEP == Dec(65, 100)
Swimming_LEN_STEP == Dec(138, 100)
M_IN_KM == 1000
MIN_IN_H == 60
CALORIES_MEAN_SPEED_MULTIPLIER == 18
CALORIES_MEAN_SPEED_SHIFT == Dec(179, 100)
H_IN_MIN == 60
CALORIES_WEIGHT_MULTIPLIER == Dec(35, 1000)
CALORIES_SPEED_HEIGHT_MULTIPLIER == Dec(29, 1000)
KMH_IN_MSEC == Dec(278, 1000)
CM_IN_M == 100
SWIM == Dec(11, 10)
SWIM2 == 2

\* self.LEN_STEP: the class attribute, overridden by Swimming
LEN_STEP(self) ==
    IF self.cls = "Swimming" THEN Swimming_LEN_STEP ELSE Training_LEN_STEP

(***************************************************************************)
(* Construction                                                            *)
(***************************************************************************)
NoTraining == [cls |-> "NoneType"]

Training_init(cls, data) ==
    [cls |-> cls, training_type |-> cls,
     action |-> data[1], duration |-> data[2], weight |-> data[3]]

SportsWalking_init(cls, data) ==
    LET base == Training_init(cls, data)
    IN  [cls |-> base.cls, training_type |-> base.training_type,
         action |-> base.action, duration |-> base.duration,
         weight |-> base.weight, height |-> data[4]]

Swimming_init(cls, data) ==
    LET base == Training_init(cls, data)
    IN  [cls |-> base.cls, training_type |-> base.training_type,
         action |-> base.action, duration |-> base.duration,
         weight |-> base.weight,
         length_pool |-> data[4], count_pool |-> data[5]]

\* number of positional parameters of cls.__init__ besides self
Arity(cls) ==
    CASE cls = "SportsWalking" -> 4
      [] cls = "Swimming" -> 5
      [] OTHER -> 3

\* cls(*data) when the constructor checks its measurements (it does not)
New_validating(cls, data) ==
    IF Len(data) # Arity(cls) THEN Raise(TypeError)
    ELSE IF \E i \in 1..Len(data) : data[i] <= 0
         THEN Raise(Exc("ValueError", ""))
    ELSE CASE cls = "SportsWalking" -> Ok(SportsWalking_init(cls, data))
           [] cls = "Swimming" -> Ok(Swimming_init(cls, data))
           [] OTHER -> Ok(Training_init(cls, data))

\* cls(*data): a wrong number of arguments is a TypeError; nothing else is
\* checked.
New(cls, data) ==
    IF Len(data) # Arity(cls) THEN Raise(TypeError)
    ELSE CASE cls = "SportsWalking" -> Ok(SportsWalking_init(cls, data))
           [] cls = "Swimming" -> Ok(Swimming_init(cls, data))
           [] OTHER -> Ok(Training_init(cls, data))

(***************************************************************************)
(* The computations                                                        *)
(***************************************************************************)
Training_get_distance(self) ==
    Ok(Div(Mul(F(self.action), LEN_STEP(self)), F(M_IN_KM)))

\* not overridden by any class
get_distance(self) == Training_get_distance(self)

Training_get_mean_speed(self) ==
    AndThen(get_distance(self), LAMBDA distance :
        IF self.duration = 0 THEN Raise(ZeroDivisionError)
        ELSE Ok(Div(distance, F(self.duration))))

\* the override left out: the inherited stride-based speed
Swimming_get_mean_speed_inherited(self) == Training_get_mean_speed(self)

Swimming_get_mean_speed(self) ==
    IF self.duration = 0 THEN Raise(ZeroDivisionError)
    ELSE Ok(Div(Div(F(self.length_pool * self.count_pool), F(M_IN_KM)),
                F(self.duration)))

get_mean_speed(self) ==
    IF self.cls = "Swimming" THEN Swimming_get_mean_speed(self)
    ELSE Training_get_mean_speed(self)

\* the body is `pass`: the call returns None
Training_get_spent_calories(self) == Ok(None)

\* the shift subtracted instead of added
Running_get_spent_calories_minus(self) ==
    AndThen(get_mean_speed(self), LAMBDA speed :
        Ok(Mul(Mul(Div(Mul(Add(Mul(F(CALORIES_MEAN_SPEED_MULTIPLIER), speed),
                               Mul(F(-1), CALORIES_MEAN_SPEED_SHIFT)),
                           F(self.weight)),
                       F(M_IN_KM)),
                   F(self.duration)),
               F(H_IN_MIN))))

Running_get_spent_calories(self) ==
    AndThen(get_mean_speed(self), LAMBDA speed :
        Ok(Mul(Mul(Div(Mul(Add(Mul(F(CALORIES_MEAN_SPEED_MULTIPLIER), speed),
                               CALORIES_MEAN_SPEED_SHIFT),
                           F(self.weight)),
                       F(M_IN_KM)),
                   F(self.duration)),
               F(H_IN_MIN))))

SportsWalking_get_spent_calories(self) ==
    AndThen(get_mean_speed(self), LAMBDA speed :
        IF self.height = 0 THEN Raise(ZeroDivisionError)
        ELSE Ok(Mul(Add(Mul(CALORIES_WEIGHT_MULTIPLIER, F(self.weight)),
                        Mul(Mul(Div(Square(Mul(speed, KMH_IN_MSEC)),
                                    Div(F(self.height), F(CM_IN_M))),
                                CALORIES_SPEED_HEIGHT_MULTIPLIER),
                            F(self.weight))),
                    F(self.duration * MIN_IN_H))))

Swimming_get_spent_calories(self) ==
    AndThen(get_mean_speed(self), LAMBDA speed :
        Ok(Mul(Mul(Mul(Add(speed, SWIM), F(SWIM2)), F(self.weight)),
               F(self.duration))))

get_spent_calories(self) ==
    CASE self.cls = "Running" -> Running_get_spent_calories(self)
      [] self.cls = "SportsWalking" -> SportsWalking_get_spent_calories(self)
      [] self.cls = "Swimming" -> Swimming_get_spent_calories(self)
      [] OTHER -> Training_get_spent_calories(self)

(***************************************************************************)
(* InfoMessage                                                             *)
(***************************************************************************)
NoInfo == [training_type |-> "NoneType"]

InfoMessage(training_type, duration, distance, speed, calories) ==
    [training_type |-> training_type, duration |-> duration,
     distance |-> distance, speed |-> speed, calories |-> calories]

\* every method called on the base class, whatever the instance's class
show_training_info_static(self) ==
    AndThen(Training_get_distance(self), LAMBDA distance :
    AndThen(Training_get_mean_speed(self), LAMBDA speed :
    AndThen(Training_get_spent_calories(self), LAMBDA calories :
        Ok(InfoMessage(self.cls, self.duration, distance, speed, calories)))))

\* the arguments of InfoMessage(...) are evaluated in their order
show_training_info(self) ==
    AndThen(get_distance(self), LAMBDA distance :
    AndThen(get_mean_speed(self), LAMBDA speed :
    AndThen(get_spent_calories(self), LAMBDA calories :
        Ok(InfoMessage(self.cls, self.duration, distance, speed, calories)))))

Pad3(k) ==
    IF k < 10 THEN "00" \o ToString(k)
    ELSE IF k < 100 THEN "0" \o ToString(k)
    ELSE ToString(k)

Pad4(k) == IF k < 1000 THEN "0" \o Pad3(k) ELSE ToString(k)

RECURSIVE BDecStr(_)
BDecStr(a) ==
    IF Len(a) <= 1 THEN ToString(Limb(a, 1))
    ELSE BDecStr(BDivSmall(a, 10000)) \o Pad4(BModSmall(a, 10000))

\* |x| in thousandths, rounded to the nearest, a tie to the even
Thousandths(x) ==
    IF x.e >= 0 THEN BShl(BMulSmall(x.m, 1000), x.e)
    ELSE BRoundShr(BMulSmall(x.m, 1000), -x.e, FALSE)

Fixed3(q) == BDecStr(BDivSmall(q, 1000)) \o "." \o Pad3(BModSmall(q, 1000))

\* format(x, '.3f'): the exact binary value rounded to three decimals, a tie
\* to the even digit; the sign of a negative zero is kept
Fmt3(x) == (IF x.s = 1 THEN "-" ELSE "") \o Fixed3(Thousandths(x))

get_message(self) ==
    IF self.calories.t = "NoneType" THEN Raise(TypeError)
    ELSE Ok(Str("Training type: " \o self.training_type
                \o "; Duration: " \o Fmt3(F(self.duration))
                \o " h; Distance: " \o Fmt3(self.distance)
                \o " km; Avg. speed: " \o Fmt3(self.speed)
                \o " km/h; Calories burned: " \o Fmt3(self.calories)
                \o "."))

(***************************************************************************)
(* read_package                                                            *)
(***************************************************************************)
type_of_training_swapped ==
    [SWM |-> "Swimming", RUN |-> "SportsWalking", WLK |-> "Running"]

type_of_training ==
    [SWM |-> "Swimming", RUN |-> "Running", WLK |-> "SportsWalking"]

UnknownTypeOfWorkout(workout_type) ==
    Exc("Exception",
        "UnknownTypeOfWorkout: " \o workout_type
        \o ", an unknown type of training was "
        \o "transferred to the dictionary.")

\* the tag upper-cased before the lookup
Upper(tag) ==
    CASE tag = "swm" -> "SWM"
      [] tag = "Run" -> "RUN"
      [] OTHER -> tag

read_package_upper(workout_type, data) ==
    IF Upper(workout_type) \notin DOMAIN type_of_training
    THEN Raise(UnknownTypeOfWorkout(workout_type))
    ELSE New(type_of_training[Upper(workout_type)], data)

read_package(workout_type, data) ==
    IF workout_type \notin DOMAIN type_of_training
    THEN Raise(UnknownTypeOfWorkout(workout_type))
    ELSE New(type_of_training[workout_type], data)

(***************************************************************************)
(* The driver: for workout_type, data in packages: main(read_package(...)) *)
(***************************************************************************)
MaxPackets == 2

Packet(tag, data) == [tag |-> tag, data |-> data]

\* packets a sensor layer may hand over: the three of the source's driver,
\* other in-range measurements (among them a swim whose speed lies halfway
\* between two third decimals, and a walk on which pow(x, 2.0) of the
\* reference build does not return the nearest double), out-of-range ones,
\* wrong argument counts and unknown tags
Packets ==
    { Packet("SWM", <<720, 1, 80, 25, 40>>),
      Packet("SWM", <<720, 2, 80, 5, 1>>),
      Packet("SWM", <<720, 1, 80, 25, 0>>),
      Packet("RUN", <<15000, 1, 75>>),
      Packet("RUN", <<0, 1, 75>>),
      Packet("RUN", <<0, -1, 75>>),
      Packet("WLK", <<9000, 1, 75, 180>>),
      Packet("WLK", <<1844, 1, 75, 180>>),
      Packet("RUN", <<15000, 0, 75>>),
      Packet("SWM", <<720, 0, 80, 25, 40>>),
      Packet("WLK", <<9000, 1, 75, 0>>),
      Packet("RUN", <<15000, 1, -75>>),
      Packet("SWM", <<720, 1, 80, 25, -4>>),
      Packet("RUN", <<15000, 1>>),
      Packet("RUN", <<15000, 1, 75, 180>>),
      Packet("XYZ", <<15000, 1, 75>>),
      Packet("swm", <<720, 1, 80, 25, 40>>),
      Packet("", <<>>) }

\* the batches of at most n packets of ps
RECURSIVE Batches(_, _)
Batches(ps, n) ==
    IF n = 0 THEN {<<>>}
    ELSE LET shorter == Batches(ps, n - 1)
         IN  shorter \cup
             {Append(b, p) : b \in {s \in shorter : Len(s) = n - 1},
                             p \in ps}

Ops == {"get_distance", "get_mean_speed", "get_spent_calories",
        "show_training_info"}
NoCall ==
    [raised |-> NoError,
     value |-> [t |-> "nocall", s |-> 0, m |-> <<>>, e |-> 0]]

\* the batch of the source's driver
SourcePackages ==
    << Packet("SWM", <<720, 1, 80, 25, 40>>),
       Packet("RUN", <<15000, 1, 75>>),
       Packet("WLK", <<9000, 1, 75, 180>>) >>

\* the instances the packets of a batch are read into
Instances(batch) ==
    {read_package(batch[i].tag, batch[i].data).value :
        i \in {j \in 1..Len(batch) :
                  read_package(batch[j].tag, batch[j].data).raised = NoError}}

\* the arguments of ** 2 in the calories of the instances ts whose square
\* is not a double
PowArgs(ts) ==
    {x \in {Mul(get_mean_speed(t).value, KMH_IN_MSEC) :
               t \in {u \in ts : /\ u.cls = "SportsWalking"
                                 /\ u.duration # 0 /\ u.height # 0}} :
        SquareDown(x) # SquareUp(x)}

\* the state before the loop, for the batch b
Start(b) ==
    /\ packages = b
    /\ pow_up \in SUBSET PowArgs(Instances(packages))
    /\ idx = 1
    /\ pc = "read"
    /\ training = NoTraining
    /\ info = NoInfo
    /\ out = <<>>
    /\ err = NoError
    /\ op = "driver"
    /\ results = [o \in Ops |-> NoCall]
    /\ other = NoTraining
    /\ log = <<>>

Init == \E b \in Batches(Packets, MaxPackets) \cup {SourcePackages} : Start(b)

\* read_package wrapped in try/except: a failing packet is skipped
ReadPackage_skipping ==
    /\ pc = "read"
    /\ idx <= Len(packages)
    /\ LET r == read_package(packages[idx].tag, packages[idx].data)
       IN  IF r.raised # NoError
           THEN /\ err' = r.raised
                /\ pc' = "read"
                /\ idx' = idx + 1
                /\ UNCHANGED training
           ELSE /\ training' = r.value
                /\ pc' = "show"
                /\ UNCHANGED <<err, idx>>
    /\ UNCHANGED <<pow_up, other, log, packages, info, out, op, results>>

\* training = read_package(workout_type, data); an exception leaves the loop
\* and ends the program
ReadPackage ==
    /\ pc = "read"
    /\ idx <= Len(packages)
    /\ LET r == read_package(packages[idx].tag, packages[idx].data)
       IN  IF r.raised # NoError
           THEN /\ err' = r.raised
                /\ pc' = "crashed"
                /\ UNCHANGED training
           ELSE /\ training' = r.value
                /\ pc' = "show"
                /\ UNCHANGED err
    /\ UNCHANGED <<pow_up, other, log, packages, idx, info, out, op, results>>

\* info = r, or the exception r raised ends the program
Assigned(r) ==
    IF r.raised # NoError
    THEN /\ err' = r.raised
         /\ pc' = "crashed"
         /\ UNCHANGED info
    ELSE /\ info' = r.value
         /\ pc' = "print"
         /\ UNCHANGED err

\* main, first line: info = training.show_training_info()
ShowTrainingInfo ==
    /\ pc = "show"
    /\ Assigned(show_training_info(training))
    /\ UNCHANGED <<pow_up, other, log, packages, idx, training, out, op, results>>

\* print(r), or the exception r raised ends the program
Printed(r) ==
    IF r.raised # NoError
    THEN /\ err' = r.raised
         /\ pc' = "crashed"
         /\ UNCHANGED <<out, idx>>
    ELSE /\ out' = Append(out, r.value.s)
         /\ idx' = idx + 1
         /\ pc' = "read"
         /\ UNCHANGED err

\* main, second line: print(info.get_message()); then the next packet
PrintMessage ==
    /\ pc = "print"
    /\ Printed(get_message(info))
    /\ UNCHANGED <<pow_up, other, log, packages, training, info, op, results>>

\* the for loop is exhausted
Finish ==
    /\ pc = "read"
    /\ idx > Len(packages)
    /\ pc' = "done"
    /\ UNCHANGED <<pow_up, other, log, packages, idx, training, info, out,
                   err, op, results>>

Next == ReadPackage \/ ShowTrainingInfo \/ PrintMessage \/ Finish

Spec == Init /\ [][Next]_vars

(***************************************************************************)
(* The driver on longer batches of fewer packets: the first two of the     *)
(* source's driver, and two that read_package fails on (an unknown tag, a  *)
(* wrong number of values)                                                 *)
(***************************************************************************)
MaxBatch == 4

BatchPackets ==
    { Packet("SWM", <<720, 1, 80, 25, 40>>),
      Packet("RUN", <<15000, 1, 75>>),
      Packet("XYZ", <<15000, 1, 75>>),
      Packet("RUN", <<15000, 1>>) }

BatchInit == \E b \in Batches(BatchPackets, MaxBatch) : Start(b)

BatchSpec == BatchInit /\ [][Next]_vars

(***************************************************************************)
(* A caller of the classes: it constructs one instance of any of the four  *)
(* classes, calls its methods in any order, and reads, assigns and renders *)
(* the InfoMessage it was given.                                           *)
(***************************************************************************)
Call(cls, data) == [cls |-> cls, data |-> data]

ApiCalls ==
    { Call("Training", <<9000, 1, 75>>),
      Call("Training", <<9000, 0, 75>>),
      Call("Training", <<9000, 1>>),
      Call("Running", <<15000, 1, 75>>),
      Call("Running", <<0, 1, 75>>),
      Call("Running", <<15000, 0, 75>>),
      Call("Running", <<-1000, 1, 75>>),
      Call("SportsWalking", <<9000, 1, 75, 180>>),
      Call("SportsWalking", <<9000, 1, 75, 0>>),
      Call("Swimming", <<720, 1, 80, 25, 40>>),
      Call("Swimming", <<1000, 1, 80, 25, 40>>),
      Call("Swimming", <<720, 0, 80, 25, 40>>) }

\* the instances the caller may construct
ApiInstances ==
    {New(c.cls, c.data).value :
        c \in {d \in ApiCalls : New(d.cls, d.data).raised = NoError}}

ApiInit ==
    /\ packages = <<>>
    /\ pow_up \in SUBSET PowArgs(ApiInstances)
    /\ idx = 1
    /\ pc = "api"
    /\ training = NoTraining
    /\ info = NoInfo
    /\ out = <<>>
    /\ err = NoError
    /\ op = "init"
    /\ results = [o \in Ops |-> NoCall]
    /\ other = NoTraining
    /\ log = <<>>

\* the caller's variable is bound to what cls(*data) returned; an exception
\* leaves it unbound
Built(r) ==
    IF r.raised # NoError
    THEN /\ err' = r.raised
         /\ UNCHANGED training
    ELSE /\ training' = r.value
         /\ err' = NoError

\* training = cls(*data), while the caller has no instance yet
ApiNew ==
    /\ pc = "api"
    /\ training = NoTraining
    /\ \E c \in ApiCalls : Built(New(c.cls, c.data))
    /\ op' = "new"
    /\ out' = <<>>
    /\ UNCHANGED <<pow_up, other, log, packages, idx, pc, info, results>>

\* the caller keeps what the call of method o returned or raised
Returned(o, r) ==
    /\ results' = [results EXCEPT ![o] = r]
    /\ err' = r.raised

\* training.get_distance()
ApiGetDistance ==
    /\ pc = "api"
    /\ training # NoTraining
    /\ Returned("get_distance", get_distance(training))
    /\ op' = "get_distance"
    /\ out' = <<>>
    /\ UNCHANGED <<pow_up, other, log, packages, idx, pc, training, info>>

\* training.get_mean_speed()
ApiGetMeanSpeed ==
    /\ pc = "api"
    /\ training # NoTraining
    /\ Returned("get_mean_speed", get_mean_speed(training))
    /\ op' = "get_mean_speed"
    /\ out' = <<>>
    /\ UNCHANGED <<pow_up, other, log, packages, idx, pc, training, info>>

\* training.get_spent_calories()
ApiGetSpentCalories ==
    /\ pc = "api"
    /\ training # NoTraining
    /\ Returned("get_spent_calories", get_spent_calories(training))
    /\ op' = "get_spent_calories"
    /\ out' = <<>>
    /\ UNCHANGED <<pow_up, other, log, packages, idx, pc, training, info>>

\* info = training.show_training_info()
ApiShowTrainingInfo ==
    /\ pc = "api"
    /\ training # NoTraining
    /\ Returned("show_training_info", show_training_info(training))
    /\ info' = IF err' # NoError THEN info
               ELSE results'["show_training_info"].value
    /\ op' = "show_training_info"
    /\ out' = <<>>
    /\ UNCHANGED <<pow_up, other, log, packages, idx, pc, training>>

\* info.<field> = value: InfoMessage is a plain dataclass, its generated
\* class accepts attribute assignment
ApiAssign ==
    /\ pc = "api"
    /\ info # NoInfo
    /\ \/ info' = [info EXCEPT !.training_type = "Edited"]
       \/ info' = [info EXCEPT !.duration = 7]
       \/ \E f \in {"distance", "speed", "calories"} :
            info' = [info EXCEPT ![f] = Dec(1, 2)]
    /\ op' = "assign"
    /\ err' = NoError
    /\ out' = <<>>
    /\ UNCHANGED <<pow_up, other, log, packages, idx, pc, training, results>>

\* the caller keeps the string get_message returned, or what it raised
Rendered(r) ==
    /\ err' = r.raised
    /\ out' = IF r.raised # NoError THEN <<>> ELSE <<r.value.s>>

\* get_message that normalises the record it renders
ApiGetMessage_normalising ==
    /\ pc = "api"
    /\ info # NoInfo
    /\ Rendered(get_message(info))
    /\ info' = [info EXCEPT !.duration = 0]
    /\ op' = "get_message"
    /\ UNCHANGED <<pow_up, other, log, packages, idx, pc, training, results>>

\* info.get_message()
ApiGetMessage ==
    /\ pc = "api"
    /\ info # NoInfo
    /\ Rendered(get_message(info))
    /\ op' = "get_message"
    /\ UNCHANGED <<pow_up, other, log, packages, idx, pc, training, info, results>>

ApiNext ==
    \/ ApiNew
    \/ ApiGetDistance
    \/ ApiGetMeanSpeed
    \/ ApiGetSpentCalories
    \/ ApiShowTrainingInfo
    \/ ApiAssign
    \/ ApiGetMessage

ApiSpec == ApiInit /\ [][ApiNext]_vars

(***************************************************************************)
(* A caller of two instances, `training` and `other`: it constructs each   *)
(* once, calls the four computing methods on either, in any order, and     *)
(* keeps what every call returned or raised, in the order of the calls     *)
(* (log).                                                                  *)
(***************************************************************************)
\* method calls in one run of the caller
MaxCalls == 3

Names == {"training", "other"}

\* the instance the caller's variable w is bound to
Target(w) == IF w = "training" THEN training ELSE other

PairCalls ==
    { Call("Running", <<15000, 1, 75>>),
      Call("Running", <<15000, 0, 75>>),
      Call("SportsWalking", <<9000, 1, 75, 180>>),
      Call("Swimming", <<720, 1, 80, 25, 40>>) }

PairInstances == {New(c.cls, c.data).value : c \in PairCalls}

PairInit ==
    /\ packages = <<>>
    /\ pow_up \in SUBSET PowArgs(PairInstances)
    /\ idx = 1
    /\ pc = "api"
    /\ training = NoTraining
    /\ info = NoInfo
    /\ out = <<>>
    /\ err = NoError
    /\ op = "init"
    /\ results = [o \in Ops |-> NoCall]
    /\ other = NoTraining
    /\ log = <<>>

\* w = cls(*data), for a variable w not bound yet
PairNew ==
    /\ pc = "api"
    /\ \E c \in PairCalls :
         \/ /\ training = NoTraining
            /\ training' = New(c.cls, c.data).value
            /\ UNCHANGED other
         \/ /\ other = NoTraining
            /\ other' = New(c.cls, c.data).value
            /\ UNCHANGED training
    /\ op' = "new"
    /\ err' = NoError
    /\ UNCHANGED <<pow_up, log, packages, idx, info, out, results, pc>>

\* the call w.o() returned or raised r: the caller keeps it after the others
Kept(w, o, r) ==
    /\ pc = "api"
    /\ Target(w) # NoTraining
    /\ Len(log) < MaxCalls
    /\ log' = Append(log, [who |-> w, op |-> o, result |-> r])
    /\ err' = r.raised
    /\ op' = o

\* get_distance that stores the steps it has converted back as none left
PairGetDistance_consuming ==
    \E w \in Names :
        /\ Kept(w, "get_distance", get_distance(Target(w)))
        /\ training' = IF w = "training"
                       THEN [training EXCEPT !.action = 0] ELSE training
        /\ other' = IF w = "other"
                    THEN [other EXCEPT !.action = 0] ELSE other
        /\ UNCHANGED <<pow_up, packages, idx, info, out, results, pc>>

\* w.get_distance()
PairGetDistance ==
    \E w \in Names :
        /\ Kept(w, "get_distance", get_distance(Target(w)))
        /\ UNCHANGED <<pow_up, other, packages, idx, training, info, out,
                       results, pc>>

\* w.get_mean_speed()
PairGetMeanSpeed ==
    \E w \in Names :
        /\ Kept(w, "get_mean_speed", get_mean_speed(Target(w)))
        /\ UNCHANGED <<pow_up, other, packages, idx, training, info, out,
                       results, pc>>

\* w.get_spent_calories()
PairGetSpentCalories ==
    \E w \in Names :
        /\ Kept(w, "get_spent_calories", get_spent_calories(Target(w)))
        /\ UNCHANGED <<pow_up, other, packages, idx, training, info, out,
                       results, pc>>

\* w.show_training_info()
PairShowTrainingInfo ==
    \E w \in Names :
        /\ Kept(w, "show_training_info", show_training_info(Target(w)))
        /\ UNCHANGED <<pow_up, other, packages, idx, training, info, out,
                       results, pc>>

PairNext ==
    \/ PairNew
    \/ PairGetDistance
    \/ PairGetMeanSpeed
    \/ PairGetSpentCalories
    \/ PairShowTrainingInfo

PairSpec == PairInit /\ [][PairNext]_vars

(***************************************************************************)
(* Properties of the driver (Spec, BatchSpec)                              *)
(***************************************************************************)
\* the packet the loop is at
AtPacket(i) == i \in 1..Len(packages) /\ idx = i /\ pc # "read"

\* the tag is one of the three keys and the data has the class's arity
WellFormed(p) ==
    \/ p.tag = "SWM" /\ Len(p.data) = 5
    \/ p.tag = "RUN" /\ Len(p.data) = 3
    \/ p.tag = "WLK" /\ Len(p.data) = 4

\* a packet whose whole cycle succeeds
Good(p) ==
    /\ WellFormed(p)
    /\ p.data[2] # 0
    /\ p.tag = "WLK" => p.data[4] # 0

\* the line a good packet renders to
Line(p) ==
    get_message(
        show_training_info(read_package(p.tag, p.data).value).value).value.s

\* C1: for a tag that is not exactly 'SWM', 'RUN' or 'WLK' (case variants and
\* partial matches included) read_package raises the unknown-type exception
\* whose message carries the tag, and returns no instance: the loop's
\* `training` still is what the previous packet left (nothing for the first).
C1_UnknownTagRaises ==
    \A i \in 1..Len(packages) :
        (AtPacket(i) /\ packages[i].tag \notin {"SWM", "RUN", "WLK"}) =>
            /\ pc = "crashed"
            /\ err.type = "Exception"
            /\ err.msg = "UnknownTypeOfWorkout: " \o packages[i].tag
                         \o ", an unknown type of training was transferred"
                         \o " to the dictionary."
            /\ i = 1 => info = NoInfo
            /\ IF i = 1 THEN training = NoTraining
               ELSE /\ training.cls # "NoneType"
                    /\ training.action = packages[i - 1].data[1]
                    /\ training.weight = packages[i - 1].data[3]
                    /\ Len(packages[i - 1].data) = Arity(training.cls)

C1_Witness ==
    /\ pc = "crashed"
    /\ idx = 2
    /\ packages[2].tag = "swm"
    /\ training.cls = "Running"
    /\ err.type = "Exception"

\* C2: for each known tag and data of the right arity read_package returns
\* an instance of the matching class, labelled with the class name, holding
\* the data positionally; the record built from it carries the same label.
C2_DispatchRoundTrip ==
    \A i \in 1..Len(packages) :
        (AtPacket(i) /\ WellFormed(packages[i])) =>
            LET tag == packages[i].tag
                data == packages[i].data
                name == CASE tag = "SWM" -> "Swimming"
                          [] tag = "RUN" -> "Running"
                          [] tag = "WLK" -> "SportsWalking"
            IN  /\ training.cls = name
                /\ training.training_type = name
                /\ training.action = data[1]
                /\ training.duration = data[2]
                /\ training.weight = data[3]
                /\ tag = "WLK" => training.height = data[4]
                /\ tag = "SWM" => /\ training.length_pool = data[4]
                                  /\ training.count_pool = data[5]
                /\ tag = "RUN" => DOMAIN training =
                       {"cls", "training_type", "action", "duration", "weight"}
                /\ pc = "print" => info.training_type = name

C2_Witness ==
    /\ pc = "print"
    /\ packages[idx].tag = "WLK"
    /\ training.cls = "SportsWalking"
    /\ training.height = 180
    /\ info.training_type = "SportsWalking"

\* C4 as claimed: when the run has ended, every packet of the batch whose
\* own cycle succeeds has had its line emitted, wherever a failing packet
\* stood.
C4_OtherPacketsUnaffected ==
    pc \in {"done", "crashed"} =>
        \A i \in 1..Len(packages) :
            Good(packages[i]) =>
                \E j \in 1..Len(out) : out[j] = Line(packages[i])

\* the instance a well-formed packet is read into, and its record
InstanceOf(p) == read_package(p.tag, p.data).value
RecordOf(p) == show_training_info(InstanceOf(p)).value

\* C4 amended: a packet that read_package fails on (an unknown tag, a wrong
\* number of values) ends the run.  Up to it the packets are dispatched one
\* at a time, in order: the lines emitted are exactly those of the packets
\* before the one the loop is at, `training` and `info` are those of the
\* packet at hand or of the one before.  The failing packet yields no
\* instance, no record and no line, and nothing runs after it: no later
\* packet is dispatched, computed or emitted.
C4_FailureEndsTheBatch ==
    /\ Len(out) = idx - 1
    /\ \A i \in 1..(idx - 1) :
           WellFormed(packages[i]) /\ out[i] = Line(packages[i])
    /\ training = IF pc \in {"show", "print"} THEN InstanceOf(packages[idx])
                  ELSE IF idx = 1 THEN NoTraining
                  ELSE InstanceOf(packages[idx - 1])
    /\ info = IF pc = "print" THEN RecordOf(packages[idx])
              ELSE IF idx = 1 THEN NoInfo
              ELSE RecordOf(packages[idx - 1])
    /\ pc = "crashed" =>
           /\ idx <= Len(packages)
           /\ ~WellFormed(packages[idx])
           /\ err = read_package(packages[idx].tag, packages[idx].data).raised
           /\ err.type \in {"Exception", "TypeError"}
           /\ ~ENABLED Next
    /\ pc # "crashed" => err = NoError
    /\ pc = "done" =>
           /\ idx = Len(packages) + 1
           /\ \A i \in 1..Len(packages) : WellFormed(packages[i])

\* two different lines emitted, in order, then an unknown tag, then a packet
\* that would have succeeded
C4_Witness ==
    /\ pc = "crashed"
    /\ Len(packages) = 4
    /\ idx = 3
    /\ packages[3].tag = "XYZ"
    /\ Good(packages[4])
    /\ out = <<Line(packages[1]), Line(packages[2])>>
    /\ out[1] # out[2]
    /\ training = InstanceOf(packages[2])
    /\ info = RecordOf(packages[2])

\* C6 as claimed: no instance holds an out-of-range measurement, and the
\* speed is never computed with a zero duration.
C6_OutOfRangeRejected ==
    training # NoTraining =>
        /\ training.action >= 0
        /\ training.duration > 0
        /\ training.weight > 0
        /\ training.cls = "SportsWalking" => training.height > 0
        /\ training.cls = "Swimming" =>
               training.length_pool > 0 /\ training.count_pool >= 0

\* C6 amended: no constructor validates its measurements.  For a known tag
\* and data of the right arity construction succeeds whatever the values,
\* and the instance holds them as given; a zero duration (or a zero height
\* of SportsWalking) fails only later, as the ZeroDivisionError of the
\* computation, and no other value fails at all.
C6_NoValidation ==
    \A i \in 1..Len(packages) :
        (AtPacket(i) /\ WellFormed(packages[i])) =>
            LET data == packages[i].data
                zero == \/ data[2] = 0
                        \/ packages[i].tag = "WLK" /\ data[4] = 0
            IN  /\ training.cls # "NoneType"
                /\ <<training.action, training.duration, training.weight>>
                       = <<data[1], data[2], data[3]>>
                /\ pc = "crashed" => zero
                /\ pc = "print" => ~zero
                /\ pc = "crashed" => err.type = "ZeroDivisionError"

C6_Witness ==
    /\ pc = "crashed"
    /\ err.type = "ZeroDivisionError"
    /\ training.cls = "Running"
    /\ training.duration = 0

\* alternative stroke counts for the same swim
OtherActions == {0, 1000, 5000}

\* C7: a Swimming instance's speed is length_pool * count_pool / 1000 /
\* duration whatever its action count (the same swim with another action
\* count has the same speed and calories), and its distance is
\* action * 1.38 / 1000.
C7_SwimSpeedFromPool ==
    (pc = "print" /\ training.cls = "Swimming") =>
        /\ info.speed =
               Div(Div(F(training.length_pool * training.count_pool),
                       F(1000)),
                   F(training.duration))
        /\ info.distance =
               Div(Mul(F(training.action), Dec(138, 100)), F(1000))
        /\ \A a \in OtherActions :
               LET swim == show_training_info(
                               [training EXCEPT !.action = a]).value
               IN  /\ swim.speed = info.speed
                   /\ swim.calories = info.calories

\* a swim whose reported distance over its duration is not its reported speed
C7_Witness ==
    /\ pc = "print"
    /\ training.cls = "Swimming"
    /\ training.action = 720
    /\ info.speed # Div(info.distance, F(training.duration))

InRange(t) ==
    /\ t.action >= 0
    /\ t.duration > 0
    /\ t.weight > 0
    /\ t.cls = "SportsWalking" => t.height > 0
    /\ t.cls = "Swimming" => t.length_pool > 0 /\ t.count_pool >= 0

\* x >= 0 for a float x (-0.0 >= 0 holds)
NonNegative(x) == x.t = "float" /\ (x.s = 0 \/ IsZero(x))

\* C9: with in-range inputs get_distance and get_mean_speed return
\* non-negative values, and every numeric field of the record built by
\* show_training_info is non-negative.
C9_NonNegative ==
    \A i \in 1..Len(packages) :
        (AtPacket(i) /\ WellFormed(packages[i]) /\ InRange(training)) =>
            /\ get_distance(training).raised = NoError
            /\ NonNegative(get_distance(training).value)
            /\ get_mean_speed(training).raised = NoError
            /\ NonNegative(get_mean_speed(training).value)
            /\ pc # "crashed"
            /\ pc = "print" =>
                   /\ info.duration >= 0
                   /\ NonNegative(info.distance)
                   /\ NonNegative(info.speed)
                   /\ NonNegative(info.calories)

C9_Witness ==
    /\ pc = "print"
    /\ InRange(training)
    /\ training.cls = "SportsWalking"
    /\ training.action > 0
    /\ info.calories.s = 0 /\ ~IsZero(info.calories)

\* C10: the record show_training_info builds on a concrete class carries the
\* class name, the instance's duration and exactly what that class's own
\* get_distance, get_mean_speed and get_spent_calories return;
\* Swimming(720, 1, 80, 25, 40) gives speed 1, calories 336 and distance
\* 720 * 1.38 / 1000.
C10_RecordFromOwnMethods ==
    pc = "print" =>
        /\ info.training_type = training.cls
        /\ info.training_type \in {"Running", "SportsWalking", "Swimming"}
        /\ info.duration = training.duration
        /\ Ok(info.distance) = Training_get_distance(training)
        /\ Ok(info.speed) =
               IF training.cls = "Swimming"
               THEN Swimming_get_mean_speed(training)
               ELSE Training_get_mean_speed(training)
        /\ Ok(info.calories) =
               CASE training.cls = "Running" ->
                        Running_get_spent_calories(training)
                 [] training.cls = "SportsWalking" ->
                        SportsWalking_get_spent_calories(training)
                 [] training.cls = "Swimming" ->
                        Swimming_get_spent_calories(training)
        /\ (packages[idx] = Packet("SWM", <<720, 1, 80, 25, 40>>)) =>
               /\ info.speed = F(1)
               /\ info.calories = F(336)
               /\ info.distance =
                      Div(Mul(F(720), Dec(138, 100)), F(1000))
               /\ Fmt3(info.speed) = "1.000"
               /\ Fmt3(info.calories) = "336.000"

C10_Witness ==
    /\ pc = "print"
    /\ packages[idx] = Packet("SWM", <<720, 1, 80, 25, 40>>)
    /\ info.training_type = "Swimming"
    /\ info.calories = F(336)

(***************************************************************************)
(* Properties of the classes under any caller (ApiSpec, PairSpec)          *)
(***************************************************************************)
\* C3 as claimed: on a base Training instance get_spent_calories raises an
\* unimplemented-operation error and yields no value, and show_training_info
\* produces no InfoMessage.
C3_BaseCaloriesUnimplemented ==
    training.cls = "Training" =>
        /\ results["get_spent_calories"] # NoCall =>
               results["get_spent_calories"].raised.type
                   = "NotImplementedError"
        /\ results["show_training_info"] # NoCall =>
               results["show_training_info"].raised # NoError

\* C5 as claimed: once built, an InfoMessage's five fields never change,
\* whatever the caller does with it.
C5_InfoMessageImmutable ==
    [][(info # NoInfo /\ op' # "show_training_info") => info' = info]_vars

Fields == {"training_type", "duration", "distance", "speed", "calories"}

\* C5 amended: InfoMessage is a plain, non-frozen dataclass.  Assigning to
\* one of its fields changes that field and no other; apart from such an
\* assignment no operation changes the record; get_message reads it without
\* changing it and renders the values the fields hold at the call.
C5_OnlyAssignmentChanges ==
    [][/\ (info # NoInfo /\ info' # info) =>
              op' \in {"show_training_info", "assign"}
       /\ (info # NoInfo /\ op' = "assign") =>
              \E f \in Fields :
                  \A g \in Fields \ {f} : info'[g] = info[g]
       /\ (op' = "get_message" /\ err' = NoError) =>
              /\ info' = info
              /\ out' = <<"Training type: " \o info.training_type
                          \o "; Duration: " \o Fmt3(F(info.duration))
                          \o " h; Distance: " \o Fmt3(info.distance)
                          \o " km; Avg. speed: " \o Fmt3(info.speed)
                          \o " km/h; Calories burned: "
                          \o Fmt3(info.calories) \o ".">>
      ]_vars

\* a record rendered after its duration was assigned
C5_Witness ==
    /\ op = "get_message"
    /\ info # NoInfo
    /\ info.duration = 7
    /\ training.duration = 1
    /\ training.cls = "Swimming"
    /\ out = <<"Training type: Swimming; Duration: 7.000 h; "
               \o "Distance: 0.994 km; Avg. speed: 1.000 km/h; "
               \o "Calories burned: 336.000.">>

====
